---- MODULE Spec2Model ----
(***************************************************************************)
(* Selection / windowing state machine of the SelectInput component        *)
(* (src/src/SelectInput.tsx).  The state is the pair                       *)
(* (rotateIndex, selectedIndex) kept with useState, the props the          *)
(* component was rendered with, and, to state properties of one key        *)
(* event, the event last delivered by useInput together with the           *)
(* callbacks the handler invoked for it.                                   *)
(***************************************************************************)
EXTENDS Integers, Sequences, FiniteSets, TLC

\* ---------------------------------------------------------------- bounds
MaxItems == 4
MaxRotate == 4
MaxOutside == 2
MaxSelected == 6

\* ------------------------------------------------------------ data model
Labels == <<"A", "B", "C", "D", "E", "F", "G", "H">>

\* Item<V>: {label, value}; the optional key plays no part in the state machine.
Item(i) == [label |-> Labels[i], value |-> i]

\* What JavaScript yields for an out-of-range array read.
Undefined == [undefined |-> TRUE]

\* The item lists the component is rendered with: A, B, C, ... in order.
ItemLists == { [i \in 1..n |-> Item(i)] : n \in 1..MaxItems }

\* The limit prop: <<>> when absent, <<L>> when it is the number L.
Limits == { <<>> } \cup { <<l>> : l \in 1..(MaxItems + 1) }

Directions == {"column", "row"}

\* A key event as ink's useInput delivers it: the input string and the flags.
Key(input, flags) ==
    [input |-> input,
     tab |-> "tab" \in flags, shift |-> "shift" \in flags,
     upArrow |-> "upArrow" \in flags, downArrow |-> "downArrow" \in flags,
     leftArrow |-> "leftArrow" \in flags, rightArrow |-> "rightArrow" \in flags,
     return |-> "return" \in flags]

Digits == {"1", "2", "3", "4", "5", "6", "7", "8", "9"}

KeyK == Key("k", {})
KeyJ == Key("j", {})
KeyUp == Key("", {"upArrow"})
KeyDown == Key("", {"downArrow"})
KeyLeft == Key("", {"leftArrow"})
KeyRight == Key("", {"rightArrow"})
KeyTab == Key("", {"tab"})
KeyShiftTab == Key("", {"tab", "shift"})
KeyReturn == Key("", {"return"})
KeyDigit(d) == Key(d, {})
KeyOther == Key("0", {})

Keys == {KeyK, KeyJ, KeyUp, KeyDown, KeyLeft, KeyRight, KeyTab, KeyShiftTab,
         KeyReturn, KeyOther} \cup { KeyDigit(d) : d \in Digits }

NoEvent == [none |-> TRUE]

VARIABLES items, customLimit, direction, isFocused, initialIndex,
          onSelect, onHighlight,
          rotateIndex, selectedIndex,
          event, calls,
          tabRun

props == <<items, customLimit, direction, initialIndex, onSelect, onHighlight>>
vars == <<items, customLimit, direction, isFocused, initialIndex,
          onSelect, onHighlight, rotateIndex, selectedIndex, event, calls,
          tabRun>>

\* ------------------------------------------------------- JavaScript helpers
Min(a, b) == IF a < b THEN a ELSE b
Max(a, b) == IF a > b THEN a ELSE b

\* JavaScript's %: the remainder takes the sign of the dividend.
JsRem(a, n) == IF a >= 0 THEN a % n ELSE 0 - ((0 - a) % n)

\* array[i] with a 0-based index; out of range reads give undefined.
At(array, i) == IF i >= 0 /\ i < Len(array) THEN array[i + 1] ELSE Undefined

\* Variant: the slice keeps one element too many.
SliceToInclusive(array, end) ==
    LET e == IF end < 0 THEN Max(Len(array) + end, 0)
                        ELSE Min(end + 1, Len(array))
    IN  SubSeq(array, 1, e)

\* array.slice(0, end)
SliceTo(array, end) ==
    LET e == IF end < 0 THEN Max(Len(array) + end, 0) ELSE Min(end, Len(array))
    IN  SubSeq(array, 1, e)

\* Number.parseInt(input, 10) for a one-digit input
ParseInt(input) ==
    CASE input = "0" -> 0 [] input = "1" -> 1 [] input = "2" -> 2
      [] input = "3" -> 3 [] input = "4" -> 4 [] input = "5" -> 5
      [] input = "6" -> 6 [] input = "7" -> 7 [] input = "8" -> 8
      [] input = "9" -> 9

\* Variant: the rotation runs the other way.
arrayToRotatedLeft(array, steps) ==
    LET length == Len(array) IN
    IF length = 0 THEN array
    ELSE LET normalizedSteps == JsRem(JsRem(steps, length) + length, length) IN
         [i \in 1..length |-> array[((i - 1 + normalizedSteps) % length) + 1]]

\* to-rotated: rotate right by steps (left for negative steps), circularly.
arrayToRotated(array, steps) ==
    LET length == Len(array) IN
    IF length = 0 THEN array
    ELSE LET normalizedSteps == JsRem(JsRem(steps, length) + length, length) IN
         IF normalizedSteps = 0 THEN array
         ELSE [i \in 1..length |->
                 IF i <= normalizedSteps
                 THEN array[length - normalizedSteps + i]
                 ELSE array[i - normalizedSteps]]

\* ------------------------------------------------------------ render body
hasLimit == Len(customLimit) = 1 /\ Len(items) > customLimit[1]
limit == IF hasLimit THEN Min(customLimit[1], Len(items)) ELSE Len(items)
lastIndex == limit - 1

\* Variant: the rotation of the initial window taken with the wrong sign.
InitRotateIndexWrongSign(last, initial) ==
    IF initial > last THEN initial - last ELSE 0

\* Variant: the initial selectedIndex is not clamped to the last slot.
InitSelectedIndexUnclamped(last, initial) ==
    IF initial # 0 THEN initial ELSE 0

\* useState initialiser of rotateIndex
InitRotateIndex(last, initial) ==
    IF initial > last THEN last - initial ELSE 0

\* useState initialiser of selectedIndex
InitSelectedIndex(last, initial) ==
    IF initial # 0 THEN (IF initial > last THEN last ELSE initial) ELSE 0

\* const isSelected = index === selectedIndex, for a slot of the rendered slice
isSelected(index) == index = selectedIndex

\* Variant: the window is cut from the list as it is, never rotated.
SlicedUnrotated(array, rotate) ==
    IF hasLimit THEN SliceTo(array, limit) ELSE array

\* hasLimit ? arrayToRotated(items, rotate).slice(0, limit) : items
Sliced(array, rotate) ==
    IF hasLimit THEN SliceTo(arrayToRotated(array, rotate), limit) ELSE array

slicedItems == Sliced(items, rotateIndex)

\* ------------------------------------------------------------ key handler
IsPrevious(key) ==
    \/ key.input = "k"
    \/ (key.tab /\ key.shift)
    \/ (direction = "column" /\ key.upArrow)
    \/ (direction = "row" /\ key.leftArrow)

\* Variant: Tab is not a Next key.
IsNextWithoutTab(key) ==
    \/ key.input = "j"
    \/ (direction = "column" /\ key.downArrow)
    \/ (direction = "row" /\ key.rightArrow)

\* Variant: 'j' is not a Next key.
IsNextWithoutJ(key) ==
    \/ key.tab
    \/ (direction = "column" /\ key.downArrow)
    \/ (direction = "row" /\ key.rightArrow)

IsNext(key) ==
    \/ key.input = "j"
    \/ key.tab
    \/ (direction = "column" /\ key.downArrow)
    \/ (direction = "row" /\ key.rightArrow)

IsNumber(key) == key.input \in Digits

Call(fn, arg) == [fn |-> fn, arg |-> arg]

\* const atFirstIndex = selectedIndex === 0
atFirstIndex == selectedIndex = 0

\* Variant: the last slot taken from the full list, ignoring the limit.
atLastIndexOfFullList == selectedIndex = Len(items) - 1

\* const atLastIndex = selectedIndex === (hasLimit ? limit : items.length) - 1
atLastIndex == selectedIndex = (IF hasLimit THEN limit ELSE Len(items)) - 1

\* "Only loop from first to last item if shift+tab was pressed"
PreviousReturnsEarly(key) == atFirstIndex /\ ~(key.tab /\ key.shift)

\* Variant: every Next key stops at the last slot, Tab included.
NextReturnsEarlyAlways(key) == atLastIndex

\* "Only loop from last to first item if tab was pressed"
NextReturnsEarly(key) == atLastIndex /\ ~key.tab

\* The handler runs against the rotateIndex and selectedIndex of its closure
\* (the state variables); run carries what it has set and called so far.
StartRun ==
    [rotateIndex |-> rotateIndex, selectedIndex |-> selectedIndex,
     calls |-> <<>>, returned |-> FALSE]

PreviousBlock(run, key) ==
    IF run.returned \/ ~IsPrevious(key) THEN run
    ELSE LET last == (IF hasLimit THEN limit ELSE Len(items)) - 1
         IN  IF PreviousReturnsEarly(key)
             THEN [run EXCEPT !.returned = TRUE]
             ELSE LET nextIndex == IF hasLimit THEN selectedIndex ELSE last
                      nextRotateIndex ==
                          IF atFirstIndex THEN rotateIndex + 1 ELSE rotateIndex
                      nextSelectedIndex ==
                          IF atFirstIndex THEN nextIndex ELSE selectedIndex - 1
                      sliced == Sliced(items, nextRotateIndex)
                 IN  [run EXCEPT
                        !.rotateIndex = nextRotateIndex,
                        !.selectedIndex = nextSelectedIndex,
                        !.calls = IF onHighlight
                                  THEN Append(@, Call("onHighlight",
                                                      At(sliced, nextSelectedIndex)))
                                  ELSE @]

\* Variant: at the last slot the rotation moves the wrong way.
NextBlockRotatingUp(run, key) ==
    IF run.returned \/ ~IsNext(key) THEN run
    ELSE     IF NextReturnsEarly(key)
             THEN [run EXCEPT !.returned = TRUE]
             ELSE LET nextIndex == IF hasLimit THEN selectedIndex ELSE 0
                      nextRotateIndex ==
                          IF atLastIndex THEN rotateIndex + 1 ELSE rotateIndex
                      nextSelectedIndex ==
                          IF atLastIndex THEN nextIndex ELSE selectedIndex + 1
                      sliced == Sliced(items, nextRotateIndex)
                 IN  [run EXCEPT
                        !.rotateIndex = nextRotateIndex,
                        !.selectedIndex = nextSelectedIndex,
                        !.calls = IF onHighlight
                                  THEN Append(@, Call("onHighlight",
                                                      At(sliced, nextSelectedIndex)))
                                  ELSE @]

NextBlock(run, key) ==
    IF run.returned \/ ~IsNext(key) THEN run
    ELSE     IF NextReturnsEarly(key)
             THEN [run EXCEPT !.returned = TRUE]
             ELSE LET nextIndex == IF hasLimit THEN selectedIndex ELSE 0
                      nextRotateIndex ==
                          IF atLastIndex THEN rotateIndex - 1 ELSE rotateIndex
                      nextSelectedIndex ==
                          IF atLastIndex THEN nextIndex ELSE selectedIndex + 1
                      sliced == Sliced(items, nextRotateIndex)
                 IN  [run EXCEPT
                        !.rotateIndex = nextRotateIndex,
                        !.selectedIndex = nextSelectedIndex,
                        !.calls = IF onHighlight
                                  THEN Append(@, Call("onHighlight",
                                                      At(sliced, nextSelectedIndex)))
                                  ELSE @]

\* Variant: the digit indexes the full list instead of the visible slice.
NumberBlockOnFullList(run, key) ==
    IF run.returned \/ ~IsNumber(key) THEN run
    ELSE LET targetIndex == ParseInt(key.input) - 1
         IN  IF targetIndex >= 0 /\ targetIndex < Len(items)
                /\ At(items, targetIndex) # Undefined /\ onSelect
             THEN [run EXCEPT
                     !.calls = Append(@, Call("onSelect", At(items, targetIndex)))]
             ELSE run

NumberBlock(run, key) ==
    IF run.returned \/ ~IsNumber(key) THEN run
    ELSE LET targetIndex == ParseInt(key.input) - 1
             visibleItems == Sliced(items, rotateIndex)
         IN  IF targetIndex >= 0 /\ targetIndex < Len(visibleItems)
                /\ At(visibleItems, targetIndex) # Undefined /\ onSelect
             THEN [run EXCEPT
                     !.calls = Append(@, Call("onSelect",
                                              At(visibleItems, targetIndex)))]
             ELSE run

\* Variant: Return reads the full list instead of the visible slice.
ReturnBlockOnFullList(run, key) ==
    IF run.returned \/ ~key.return THEN run
    ELSE IF onSelect
         THEN [run EXCEPT
                 !.calls = Append(@, Call("onSelect", At(items, selectedIndex)))]
         ELSE run

ReturnBlock(run, key) ==
    IF run.returned \/ ~key.return THEN run
    ELSE IF onSelect
         THEN [run EXCEPT
                 !.calls = Append(@, Call("onSelect",
                                          At(Sliced(items, rotateIndex),
                                             selectedIndex)))]
         ELSE run

Handler(key) ==
    ReturnBlock(NumberBlock(NextBlock(PreviousBlock(StartRun, key), key), key), key)

\* ------------------------------------------------------ runs of Tab presses
\* tabRun follows a run of consecutive Tab presses: how many there were, the
\* state the run started from, and the items highlighted, the one at the
\* start first.  Only SpecCycle keeps it; elsewhere it stays NoRun.
NoRun == [count |-> 0, rotateIndex |-> 0, selectedIndex |-> 0, highlighted |-> <<>>]

RunFrom(rotate, selected) ==
    [count |-> 0, rotateIndex |-> rotate, selectedIndex |-> selected,
     highlighted |-> <<At(Sliced(items, rotate), selected)>>]

\* ---------------------------------------------------------------- actions
Init ==
    /\ items \in ItemLists
    /\ customLimit \in Limits
    /\ direction \in Directions
    /\ isFocused \in BOOLEAN
    /\ initialIndex \in 0..(Len(items) - 1)
    /\ onSelect \in BOOLEAN
    /\ onHighlight \in BOOLEAN
    /\ rotateIndex = InitRotateIndex(lastIndex, initialIndex)
    /\ selectedIndex = InitSelectedIndex(lastIndex, initialIndex)
    /\ event = NoEvent
    /\ calls = <<>>
    /\ tabRun = NoRun

\* Variant: the handler runs whether or not the component is focused.
KeyPressIgnoringFocus(key) ==
    LET run == Handler(key) IN
    /\ run.rotateIndex \in (0 - MaxRotate)..MaxRotate
    /\ rotateIndex' = run.rotateIndex
    /\ selectedIndex' = run.selectedIndex
    /\ calls' = run.calls
    /\ event' = [key |-> key, focused |-> isFocused,
                 rotateIndex |-> rotateIndex, selectedIndex |-> selectedIndex]
    /\ UNCHANGED <<props, isFocused, tabRun>>

\* useInput delivers one key event; the handler runs only while isFocused.
KeyPress(key) ==
    LET run == IF isFocused THEN Handler(key) ELSE StartRun IN
    /\ run.rotateIndex \in (0 - MaxRotate)..MaxRotate
    /\ rotateIndex' = run.rotateIndex
    /\ selectedIndex' = run.selectedIndex
    /\ calls' = run.calls
    /\ event' = [key |-> key, focused |-> isFocused,
                 rotateIndex |-> rotateIndex, selectedIndex |-> selectedIndex]
    /\ UNCHANGED <<props, isFocused, tabRun>>

\* The parent re-renders the component with another isFocused.
SetFocus(focused) ==
    /\ focused # isFocused
    /\ isFocused' = focused
    /\ UNCHANGED <<props, rotateIndex, selectedIndex, event, calls, tabRun>>

Next ==
    \/ \E key \in Keys : KeyPress(key)
    \/ \E focused \in BOOLEAN : SetFocus(focused)

Spec == Init /\ [][Next]_vars

\* ------------------------------------------- any item list, any initialIndex
\* The component mounted with both callbacks registered, on any list (the
\* default [] included) and with any integer initialIndex, then driven by
\* key events only.
AnyItemLists == ItemLists \cup { <<>> }

InitialIndexes == (0 - MaxOutside)..(MaxItems + MaxOutside - 1)

InitAny ==
    /\ items \in AnyItemLists
    /\ customLimit \in Limits
    /\ direction \in Directions
    /\ isFocused = TRUE
    /\ initialIndex \in InitialIndexes
    /\ onSelect = TRUE
    /\ onHighlight = TRUE
    /\ rotateIndex = InitRotateIndex(lastIndex, initialIndex)
    /\ selectedIndex = InitSelectedIndex(lastIndex, initialIndex)
    /\ event = NoEvent
    /\ calls = <<>>
    /\ tabRun = NoRun

\* A key event, as long as selectedIndex stays within the explored range.
KeyPressCapped(key) ==
    /\ KeyPress(key)
    /\ selectedIndex' \in (0 - MaxSelected)..MaxSelected

NextAny == \E key \in Keys : KeyPressCapped(key)

SpecAny == InitAny /\ [][NextAny]_vars

\* ------------------------------------------------- re-renders with new props
\* items.map(item => item.value)
Values(array) == [i \in 1..Len(array) |-> array[i].value]

\* The same values under other labels, and the same items in reverse order.
Relabelled(array) ==
    [i \in 1..Len(array) |-> [label |-> Labels[i + 1], value |-> array[i].value]]

Reversed(array) == [i \in 1..Len(array) |-> array[Len(array) + 1 - i]]

PropItemLists ==
    ItemLists \cup { Relabelled(array) : array \in ItemLists }
              \cup { Reversed(array) : array \in ItemLists }

\* No key: what event holds after a re-render, together with the props and
\* the state the re-render started from.
NoKey == Key("", {})

RerenderEvent ==
    [key |-> NoKey, focused |-> isFocused,
     rotateIndex |-> rotateIndex, selectedIndex |-> selectedIndex,
     items |-> items, customLimit |-> customLimit]

\* Variant: the reset compares whole items, labels included.
SetItemsComparingItems(newItems) ==
    /\ newItems # items
    /\ items' = newItems
    /\ IF items # newItems
       THEN rotateIndex' = 0 /\ selectedIndex' = 0
       ELSE UNCHANGED <<rotateIndex, selectedIndex>>
    /\ event' = RerenderEvent
    /\ calls' = <<>>
    /\ UNCHANGED <<customLimit, direction, isFocused, initialIndex,
                   onSelect, onHighlight, tabRun>>

\* The parent re-renders with another items array; the effect on [items]
\* then compares the value sequences of previousItems.current (always the
\* array of the previous render) and of the new array, and resets the state
\* when they differ.
SetItems(newItems) ==
    /\ newItems # items
    /\ items' = newItems
    /\ IF Values(items) # Values(newItems)
       THEN rotateIndex' = 0 /\ selectedIndex' = 0
       ELSE UNCHANGED <<rotateIndex, selectedIndex>>
    /\ event' = RerenderEvent
    /\ calls' = <<>>
    /\ UNCHANGED <<customLimit, direction, isFocused, initialIndex,
                   onSelect, onHighlight, tabRun>>

\* The parent re-renders with another limit; no code touches the state.
SetLimit(newLimit) ==
    /\ newLimit # customLimit
    /\ customLimit' = newLimit
    /\ event' = RerenderEvent
    /\ calls' = <<>>
    /\ UNCHANGED <<items, direction, isFocused, initialIndex,
                   onSelect, onHighlight, rotateIndex, selectedIndex, tabRun>>

\* Mounted focused, with both callbacks registered and the default
\* initialIndex, then driven by key events and re-renders.
InitProps ==
    /\ items \in PropItemLists
    /\ customLimit \in Limits
    /\ direction \in Directions
    /\ isFocused = TRUE
    /\ initialIndex = 0
    /\ onSelect = TRUE
    /\ onHighlight = TRUE
    /\ rotateIndex = InitRotateIndex(lastIndex, initialIndex)
    /\ selectedIndex = InitSelectedIndex(lastIndex, initialIndex)
    /\ event = NoEvent
    /\ calls = <<>>
    /\ tabRun = NoRun

NextProps ==
    \/ \E key \in Keys : KeyPressCapped(key)
    \/ \E newItems \in PropItemLists : SetItems(newItems)
    \/ \E newLimit \in Limits : SetLimit(newLimit)

SpecProps == InitProps /\ [][NextProps]_vars

\* ------------------------------------------- the window for any rotateIndex
\* The windowing expression is a function of items, limit and rotateIndex:
\* here rotateIndex is drawn from all of -MaxRotate..MaxRotate, the component
\* is focused with both callbacks registered, and key events follow.
InitWindow ==
    /\ items \in ItemLists
    /\ customLimit \in Limits
    /\ direction \in Directions
    /\ isFocused = TRUE
    /\ initialIndex = 0
    /\ onSelect = TRUE
    /\ onHighlight = TRUE
    /\ rotateIndex \in (0 - MaxRotate)..MaxRotate
    /\ selectedIndex = 0
    /\ event = NoEvent
    /\ calls = <<>>
    /\ tabRun = NoRun

NextWindow == \E key \in Keys : KeyPress(key)

SpecWindow == InitWindow /\ [][NextWindow]_vars

\* ---------------------------------------------------- consecutive Tab presses
\* Fixed props, focused, both callbacks registered; key events only, with the
\* run of Tab presses recorded.  A run ends after Len(items) presses or at
\* any other key; the next Tab starts a new one.
InitCycle ==
    /\ items \in ItemLists
    /\ customLimit \in Limits
    /\ direction \in Directions
    /\ isFocused = TRUE
    /\ initialIndex \in 0..(Len(items) - 1)
    /\ onSelect = TRUE
    /\ onHighlight = TRUE
    /\ rotateIndex = InitRotateIndex(lastIndex, initialIndex)
    /\ selectedIndex = InitSelectedIndex(lastIndex, initialIndex)
    /\ event = NoEvent
    /\ calls = <<>>
    /\ tabRun = RunFrom(rotateIndex, selectedIndex)

CycleKeyPress(key) ==
    LET run == Handler(key)
        shown == At(Sliced(items, run.rotateIndex), run.selectedIndex)
    IN
    /\ run.rotateIndex \in (0 - MaxRotate)..MaxRotate
    /\ rotateIndex' = run.rotateIndex
    /\ selectedIndex' = run.selectedIndex
    /\ calls' = run.calls
    /\ event' = [key |-> key, focused |-> isFocused,
                 rotateIndex |-> rotateIndex, selectedIndex |-> selectedIndex]
    /\ tabRun' =
          IF key # KeyTab THEN RunFrom(run.rotateIndex, run.selectedIndex)
          ELSE LET from == IF tabRun.count < Len(items) THEN tabRun
                           ELSE RunFrom(rotateIndex, selectedIndex)
               IN  [from EXCEPT !.count = @ + 1,
                                !.highlighted = Append(@, shown)]
    /\ UNCHANGED <<props, isFocused>>

NextCycle == \E key \in Keys : CycleKeyPress(key)

SpecCycle == InitCycle /\ [][NextCycle]_vars

\* ------------------------------------------------------------- properties
\* The last key event reached the handler (the component was focused).
Handled == event # NoEvent /\ event.focused

Pressed(key) == Handled /\ event.key = key

\* The keys of each class that are not Tab / Shift+Tab.
PlainNextKeys ==
    {KeyJ} \cup (IF direction = "column" THEN {KeyDown} ELSE {KeyRight})

PlainPreviousKeys ==
    {KeyK} \cup (IF direction = "column" THEN {KeyUp} ELSE {KeyLeft})

PressedPlainNext == Handled /\ event.key \in PlainNextKeys

PressedPlainPrevious == Handled /\ event.key \in PlainPreviousKeys

\* The callbacks the handler is expected to have made: exactly this one
\* call when the callback is registered, none otherwise.
OnlyHighlight(item) ==
    calls = IF onHighlight THEN <<Call("onHighlight", item)>> ELSE <<>>

OnlySelect(item) ==
    calls = IF onSelect THEN <<Call("onSelect", item)>> ELSE <<>>

StateUnchanged ==
    /\ rotateIndex = event.rotateIndex
    /\ selectedIndex = event.selectedIndex

\* C1: in the initial state the highlighted item (the visible slice read at
\* selectedIndex) is items[initialIndex], for every limit and every
\* initialIndex inside the list.
InitialHighlight ==
    event = NoEvent => At(slicedItems, selectedIndex) = At(items, initialIndex)

\* The initial window had to be rotated to show items[initialIndex].
InitialHighlightWitness ==
    /\ event = NoEvent
    /\ hasLimit
    /\ initialIndex > lastIndex
    /\ rotateIndex < 0

PlainKeysStopAtBoundary ==
    /\ (PressedPlainPrevious /\ event.selectedIndex = 0)
          => StateUnchanged /\ calls = <<>>
    /\ (PressedPlainNext /\ event.selectedIndex = lastIndex)
          => StateUnchanged /\ calls = <<>>

PlainKeysStopAtBoundaryWitness ==
    /\ PressedPlainNext
    /\ hasLimit
    /\ onHighlight
    /\ event.selectedIndex = lastIndex
    /\ lastIndex > 0

\* C4: without a limit, Tab at the last index sets selectedIndex to 0 and
\* calls onHighlight with items[0]; a plain Next key there moves nothing and
\* calls nothing.
TabWrapsForward ==
    /\ (Pressed(KeyTab) /\ ~hasLimit /\ event.selectedIndex = lastIndex)
          => /\ selectedIndex = 0
             /\ OnlyHighlight(At(items, 0))
    /\ (PressedPlainNext /\ ~hasLimit /\ event.selectedIndex = lastIndex)
          => /\ selectedIndex = event.selectedIndex
             /\ calls = <<>>

TabWrapsForwardWitness ==
    /\ Pressed(KeyTab)
    /\ ~hasLimit
    /\ event.selectedIndex = lastIndex
    /\ lastIndex > 0
    /\ selectedIndex = 0
    /\ calls = <<Call("onHighlight", Item(1))>>

\* C5: without a limit, one Shift+Tab at selectedIndex = 0 leaves
\* selectedIndex at the last index.
ShiftTabWrapsBackward ==
    (Pressed(KeyShiftTab) /\ ~hasLimit /\ event.selectedIndex = 0)
        => selectedIndex = lastIndex

\* C6: one Shift+Tab at selectedIndex > 0 leaves selectedIndex one lower,
\* rotateIndex unchanged, and calls onHighlight once, with the item at the
\* new selectedIndex.
ShiftTabIsPrevious ==
    (Pressed(KeyShiftTab) /\ event.selectedIndex > 0)
        => /\ selectedIndex = event.selectedIndex - 1
           /\ rotateIndex = event.rotateIndex
           /\ OnlyHighlight(At(slicedItems, event.selectedIndex - 1))

\* C7: Return calls onSelect once with the item at selectedIndex of the
\* visible slice, calls no onHighlight and changes no state.
ReturnConfirms ==
    Pressed(KeyReturn)
        => /\ StateUnchanged
           /\ OnlySelect(At(slicedItems, selectedIndex))

ReturnConfirmsWitness ==
    /\ Pressed(KeyReturn)
    /\ hasLimit
    /\ JsRem(rotateIndex, Len(items)) # 0
    /\ selectedIndex > 0
    /\ calls = <<Call("onSelect", At(slicedItems, selectedIndex))>>

\* C8: digit n calls onSelect once with slot n-1 of the visible slice when
\* n-1 is below the size of the slice and calls nothing otherwise; no state
\* changes and onHighlight is not called.
DirectSelect ==
    (Handled /\ event.key.input \in Digits)
        => /\ StateUnchanged
           /\ LET n == ParseInt(event.key.input)
                  m == Len(slicedItems)
              IN  IF n - 1 < m
                  THEN OnlySelect(At(slicedItems, n - 1))
                  ELSE calls = <<>>

\* A digit beyond the window but inside the list, on a rotated window.
DirectSelectWitness ==
    /\ Handled
    /\ event.key.input \in Digits
    /\ onSelect
    /\ hasLimit
    /\ JsRem(rotateIndex, Len(items)) # 0
    /\ ParseInt(event.key.input) > Len(slicedItems)
    /\ ParseInt(event.key.input) <= Len(items)
    /\ calls = <<>>

\* The position in the list of the item shown in slot k (1-based).
Position(k) == slicedItems[k].value

\* C9: the visible slice has limit items when limit is a number below the
\* item count and all the items otherwise; its items sit at pairwise
\* distinct positions that form one circular run of the list, in list order.
VisibleSlice ==
    /\ Len(slicedItems) =
          IF Len(customLimit) = 1 /\ customLimit[1] < Len(items)
          THEN customLimit[1] ELSE Len(items)
    /\ \A k \in 1..Len(slicedItems) :
          /\ Position(k) \in 1..Len(items)
          /\ slicedItems[k] = items[Position(k)]
    /\ \A k \in 1..(Len(slicedItems) - 1) :
          Position(k + 1) = (Position(k) % Len(items)) + 1
    /\ \A j, k \in 1..Len(slicedItems) :
          j # k => Position(j) # Position(k)

\* A window that runs over the end of the list.
VisibleSliceWitness ==
    /\ hasLimit
    /\ event # NoEvent
    /\ Len(slicedItems) > 1
    /\ \E k \in 1..(Len(slicedItems) - 1) : Position(k) = Len(items)

\* The example of the documentation: [A,B,C,D,E] with limit 3.
FiveItems == [i \in 1..5 |-> Item(i)]

\* C10: with a limit L below the item count, Tab at slot L-1 lowers
\* rotateIndex by one, keeps selectedIndex at L-1, moves the window forward
\* by one item of the list and calls onHighlight with the item now in the
\* last slot; on [A,B,C,D,E] with L = 3 the window [A,B,C] becomes [B,C,D].
TabScrollsWindow ==
    /\ (Pressed(KeyTab) /\ hasLimit /\ event.selectedIndex = limit - 1)
          => LET old == Sliced(items, event.rotateIndex)
                 new == slicedItems
             IN  /\ rotateIndex = event.rotateIndex - 1
                 /\ selectedIndex = limit - 1
                 /\ \A k \in 1..(limit - 1) : new[k] = old[k + 1]
                 /\ new[limit] = items[(old[limit].value % Len(items)) + 1]
                 /\ OnlyHighlight(new[limit])
    /\ SliceTo(arrayToRotated(FiveItems, 0), 3) = <<Item(1), Item(2), Item(3)>>
    /\ SliceTo(arrayToRotated(FiveItems, 0 - 1), 3) = <<Item(2), Item(3), Item(4)>>

TabScrollsWindowWitness ==
    /\ Pressed(KeyTab)
    /\ hasLimit
    /\ limit = 3
    /\ event.selectedIndex = 2
    /\ event.rotateIndex = 0
    /\ rotateIndex = 0 - 1
    /\ slicedItems = <<Item(2), Item(3), Item(4)>>
    /\ calls = <<Call("onHighlight", Item(4))>>

\* C12: a key event delivered while isFocused is false changes neither
\* rotateIndex nor selectedIndex and calls neither onSelect nor onHighlight.
FocusGate ==
    (event # NoEvent /\ event.key \in Keys /\ ~event.focused)
        => StateUnchanged /\ calls = <<>>

\* Tab at the last slot, which scrolls or wraps when focused, was ignored.
FocusGateWitness ==
    /\ event # NoEvent
    /\ ~event.focused
    /\ event.key = KeyTab
    /\ event.selectedIndex = lastIndex
    /\ onHighlight
    /\ rotateIndex < 0

\* C13: with items = [] no key event calls onSelect or onHighlight.
\* (Checked for the default initialIndex = 0.)
EmptyListInert ==
    (Len(items) = 0 /\ initialIndex = 0) => calls = <<>>

\* C15: for a non-empty list and any integer initialIndex the initial
\* selectedIndex lies in 0..windowSize-1.
InitialIndexClamped ==
    (event = NoEvent /\ Len(items) > 0)
        => (0 <= selectedIndex /\ selectedIndex <= lastIndex)

\* C17: when no limit applies rotateIndex is 0, initially and after every
\* key event.
NoRotationWithoutLimit ==
    ~hasLimit => rotateIndex = 0

\* C20: for a non-empty list, a limit absent or positive, and initialIndex
\* >= 0, after any key events selectedIndex lies in 0..windowSize-1, so
\* exactly one slot of the visible slice is rendered with isSelected.
ExactlyOneHighlighted ==
    (Len(items) > 0 /\ initialIndex >= 0)
        => /\ 0 <= selectedIndex
           /\ selectedIndex <= lastIndex
           /\ Cardinality({index \in 0..(Len(slicedItems) - 1) :
                             isSelected(index)}) = 1

\* Mounted with initialIndex beyond the list, then Shift+Tab pressed.
ExactlyOneHighlightedWitness ==
    /\ initialIndex >= Len(items)
    /\ Len(items) > 1
    /\ Pressed(KeyShiftTab)
    /\ isSelected(lastIndex)

\* The last step was a re-render that replaced the items array.
ItemsReplaced ==
    event # NoEvent /\ event.key = NoKey /\ event.items # items

\* C11: replacing items resets (rotateIndex, selectedIndex) to (0, 0) when
\* the sequence of values differs from the previous render's, and leaves
\* both as they were when it is the same.
ResetOnIdentityChange ==
    ItemsReplaced
        => IF Values(event.items) # Values(items)
           THEN rotateIndex = 0 /\ selectedIndex = 0
           ELSE StateUnchanged

\* Only the labels changed, on a scrolled window with a moved highlight.
ResetOnIdentityChangeWitness ==
    /\ ItemsReplaced
    /\ Values(event.items) = Values(items)
    /\ rotateIndex < 0
    /\ selectedIndex > 0

\* C14: after any key events and changes of items and limit, selectedIndex
\* is an index of the visible slice of the current list and limit, and a
\* Return then passes an item of the slice to onSelect.
SelectedIndexValid ==
    /\ (0 <= selectedIndex /\ selectedIndex <= lastIndex)
    /\ Pressed(KeyReturn)
          => /\ At(slicedItems, selectedIndex) # Undefined
             /\ calls = <<Call("onSelect", At(slicedItems, selectedIndex))>>

\* a mod n, in 0..n-1 for every integer a
Mod(a, n) == ((a % n) + n) % n

\* The first count elements of the list in which the element at 0-based
\* position i of array sits at position (i + shift) mod length.
FirstOfMoved(array, shift, count) ==
    [k \in 1..count |-> array[Mod((k - 1) - shift, Len(array)) + 1]]

\* C16 as stated: under a limit the visible slice is the first L elements of
\* the list with the element at position i moved to (i - rotateIndex) mod n.
WindowMovesByMinusRotateIndex ==
    hasLimit => slicedItems = FirstOfMoved(items, 0 - rotateIndex, limit)

\* C16 as amended: under a limit the visible slice is the first L elements
\* of the list with the element at position i moved to
\* (i + rotateIndex) mod n, for every rotateIndex, negative, zero or positive.
WindowMovesByRotateIndex ==
    hasLimit => slicedItems = FirstOfMoved(items, rotateIndex, limit)

\* A positive rotation on which the two readings differ, used by a key event.
WindowMovesByRotateIndexWitness ==
    /\ hasLimit
    /\ rotateIndex > 0
    /\ Mod(2 * rotateIndex, Len(items)) # 0
    /\ Pressed(KeyReturn)
    /\ calls = <<Call("onSelect",
                      items[Mod(selectedIndex - rotateIndex, Len(items)) + 1])>>

\* A run of itemCount consecutive Tab presses has just been completed.
FullRun == tabRun.count > 0 /\ tabRun.count = Len(items)

\* C18 as stated: with a limit below the item count, itemCount Tab presses
\* in a row bring rotateIndex back to the value it had before the first.
FullCycleRestoresRotateIndex ==
    (hasLimit /\ FullRun) => rotateIndex = tabRun.rotateIndex

\* C18 as amended: with a limit L below the item count n, n Tab presses in a
\* row starting at selectedIndex = s spend L-1-s presses on reaching the last
\* slot and lower rotateIndex by one at each of the other n-(L-1-s); started
\* at the last slot they lower rotateIndex by n, which is the same rotation
\* modulo n: the visible slice is again what it was.
FullCycleLowersRotateIndex ==
    (hasLimit /\ FullRun)
        => /\ rotateIndex = tabRun.rotateIndex
                              - (Len(items) - (limit - 1 - tabRun.selectedIndex))
           /\ selectedIndex = limit - 1
           /\ tabRun.selectedIndex = limit - 1
                 => /\ rotateIndex = tabRun.rotateIndex - Len(items)
                    /\ slicedItems = Sliced(items, tabRun.rotateIndex)

\* A full run from the last slot of a window that was already scrolled.
FullCycleLowersRotateIndexWitness ==
    /\ hasLimit
    /\ FullRun
    /\ Len(items) >= 3
    /\ limit >= 2
    /\ tabRun.selectedIndex = limit - 1
    /\ tabRun.rotateIndex < 0
    /\ rotateIndex = tabRun.rotateIndex - Len(items)

\* C19: every Tab press moves the highlight from the item at position p of
\* the list to the item at position (p + 1) mod n, so n presses in a row
\* highlight every item exactly once and end on the item they started from.
TabCyclesWholeList ==
    /\ Pressed(KeyTab)
          => LET old == At(Sliced(items, event.rotateIndex), event.selectedIndex)
                 new == At(slicedItems, selectedIndex)
             IN  /\ old # Undefined
                 /\ new = items[(old.value % Len(items)) + 1]
                 /\ calls = <<Call("onHighlight", new)>>
    /\ FullRun
          => LET after == SubSeq(tabRun.highlighted, 2, Len(items) + 1)
             IN  /\ Len(tabRun.highlighted) = Len(items) + 1
                 /\ { after[k] : k \in 1..Len(items) }
                       = { items[k] : k \in 1..Len(items) }
                 /\ after[Len(items)] = tabRun.highlighted[1]

\* A full run on a window smaller than the list, started inside the window.
TabCyclesWholeListWitness ==
    /\ hasLimit
    /\ FullRun
    /\ Len(items) >= 4
    /\ limit = 2
    /\ tabRun.selectedIndex = 0
    /\ tabRun.rotateIndex < 0
    /\ Pressed(KeyTab)

====
